---- MODULE Spec2Model ----
(***************************************************************************)
(* EdgeFinder API: the x402 payment flow.                                  *)
(*                                                                         *)
(*   services/payment.ts   startPayment, settlePayment (retry loop)        *)
(*   config.ts             CONFIG (environment, bypass secret)             *)
(*   utils/validation.ts   validateWalletAddress / Requirements / Permit   *)
(*   services/supabase.ts  getLatestSharedDataset, grantDatasetAccess,     *)
(*                         getPaymentStatus                                *)
(*   routes/payment.ts     the /payment/settle, /payment/start and         *)
(*                         /payment/status handlers                        *)
(*                                                                         *)
(* One request is in flight at a time.  Every await of the code that       *)
(* talks to the facilitator or to the store is a step of its own.          *)
(***************************************************************************)
EXTENDS Integers, Sequences, FiniteSets, TLC

VARIABLES
  env,          \* process.env as read by config.ts when the module loads
  pc,           \* where the request in flight stands
  req,          \* the body (and query) of the payment request in flight, or of
                \* the last one finished
  attempt,      \* settlePayment: the loop counter
  lastError,    \* settlePayment: lastError
  settlement,   \* what settlePayment returned, or the Error it threw
  responses,    \* facilitator: its answers to the POST /settle calls of the
                \* settlePayment call in progress, in order
  delays,       \* the setTimeout delays settlePayment has waited, in order
  path,         \* which path the request took: "none", "bypass" or "live"
  now,          \* the clock, in seconds (Date.now() is now * 1000)
  datasets,     \* the store's shared_datasets rows
  entitlements, \* the store's entitlements rows, in insertion order
  sharedDataset,\* the settle handler's sharedDataset
  reply,        \* the response sent for the last finished payment request
  nreq,         \* requests received so far
  rowsBefore,   \* entitlements rows when the request in flight arrived
  published,    \* shared_datasets rows written so far (a row's id is never reused)
  log,          \* fastify.log.error: what the handler of the request in flight,
                \* or of the last one finished, has logged
  statuses      \* the answer of the last /payment/status call, while no other
                \* request and no change of the store has followed it (the
                \* clock may have moved): <<>> or <<answer>>

settleVars == <<attempt, lastError, settlement, responses, delays>>

storeVars == <<now, datasets, entitlements>>

vars ==
  <<env, pc, req, attempt, lastError, settlement, responses, delays, path,
    now, datasets, entitlements, sharedDataset, reply, nreq, rowsBefore,
    published, log, statuses>>

(***************************************************************************)
(* JavaScript values.  undefined is a value of its own; a string is falsy  *)
(* when it is undefined or empty.                                          *)
(***************************************************************************)
Undefined == "<undefined>"

Truthy(x) == x /= Undefined /\ x /= ""

\* a || b
OrElse(a, b) == IF Truthy(a) THEN a ELSE b

\* text.includes(sub): a text is a sequence of phrases
Includes(text, sub) == \E i \in 1..Len(text) : text[i] = sub

(***************************************************************************)
(* config.ts                                                               *)
(***************************************************************************)
NodeEnvValues == {Undefined, "production", "development"}

SecretValues == {Undefined, "s3cret"}

\* The facilitator's three settings are set together or not at all.
FacilitatorSettings ==
  {[FACILITATOR_API_URL |-> Undefined, FACILITATOR_API_KEY |-> Undefined,
    MERCHANT_ADDRESS |-> Undefined],
   [FACILITATOR_API_URL |-> "https://facilitator", FACILITATOR_API_KEY |-> "key",
    MERCHANT_ADDRESS |-> "0xMerchant"]}

Environments ==
  {[NODE_ENV |-> e, DEV_BYPASS_SECRET |-> s,
    FACILITATOR_API_URL |-> f.FACILITATOR_API_URL,
    FACILITATOR_API_KEY |-> f.FACILITATOR_API_KEY,
    MERCHANT_ADDRESS |-> f.MERCHANT_ADDRESS] :
     e \in NodeEnvValues, s \in SecretValues, f \in FacilitatorSettings}

USDC_ADDRESS == "0xUSDC"

AMOUNT_USDC == "1000000"

CONFIG ==
  [NODE_ENV            |-> OrElse(env.NODE_ENV, "development"),
   FACILITATOR_API_URL |-> OrElse(env.FACILITATOR_API_URL, ""),
   FACILITATOR_API_KEY |-> OrElse(env.FACILITATOR_API_KEY, ""),
   MERCHANT_ADDRESS    |-> OrElse(env.MERCHANT_ADDRESS, ""),
   DEV_BYPASS_SECRET   |-> OrElse(env.DEV_BYPASS_SECRET, "")]

(***************************************************************************)
(* The dev-bypass test of startPayment and of settlePayment.               *)
(***************************************************************************)
DevBypassNoEnvCheck(devBypass) ==
  Truthy(devBypass) /\ devBypass = CONFIG.DEV_BYPASS_SECRET

DevBypass(devBypass) ==
  /\ CONFIG.NODE_ENV /= "production"
  /\ Truthy(devBypass)
  /\ devBypass = CONFIG.DEV_BYPASS_SECRET

(***************************************************************************)
(* The facilitator's answers to POST /settle.                              *)
(*   kind     "response" or "exception" (fetch rejected)                   *)
(*   status   the HTTP status                                              *)
(*   text     the body as response.text() gives it, as phrases             *)
(*   json     what response.json() does: "object", "null" (the body is the *)
(*            JSON null) or "invalid" (the body is no JSON: json() rejects)*)
(*   data     the parsed object's txHash, transactionHash and meta         *)
(*   executed whether the facilitator executed the payment while handling  *)
(*            this call (a 2xx answer says it did; an exception of fetch   *)
(*            leaves both open: the request was never delivered, or the    *)
(*            answer was lost on its way back)                             *)
(***************************************************************************)
NoData ==
  [txHash |-> Undefined, transactionHash |-> Undefined,
   meta |-> [present |-> FALSE, incomingTxHash |-> Undefined]]

Bodies ==
  [txHash : {Undefined, "", "0xh1"}, transactionHash : {Undefined, "0xh2"},
   meta : {[present |-> FALSE, incomingTxHash |-> Undefined],
           [present |-> TRUE, incomingTxHash |-> Undefined],
           [present |-> TRUE, incomingTxHash |-> "0xh3"]}]

Success(data) ==
  [kind |-> "response", status |-> 200, text |-> <<>>, json |-> "object",
   data |-> data, message |-> <<>>, executed |-> TRUE]

SuccessUnparsed(how) ==
  [kind |-> "response", status |-> 200, text |-> <<>>, json |-> how,
   data |-> NoData, message |-> <<>>, executed |-> TRUE]

Failure(status, text) ==
  [kind |-> "response", status |-> status, text |-> text, json |-> "invalid",
   data |-> NoData, message |-> <<>>, executed |-> FALSE]

NetworkError ==
  [kind |-> "exception", status |-> 0, text |-> <<>>, json |-> "invalid",
   data |-> NoData, message |-> <<"fetch failed">>, executed |-> FALSE]

\* fetch rejects after the facilitator has handled the POST: the answer is lost.
ResponseLost == [NetworkError EXCEPT !.executed = TRUE]

SuccessOutcomes == {Success(d) : d \in Bodies}

UnparsedOutcomes == {SuccessUnparsed(h) : h \in {"null", "invalid"}}

FailureOutcomes ==
  {Failure(400, <<"insufficient funds">>),
   Failure(400, <<"error", "checking nonce">>),
   Failure(409, <<"nonce uniqueness", "violated">>),
   Failure(400, <<"database", "timeout">>),
   Failure(400, <<"Internal error">>),
   Failure(499, <<"client closed request">>),
   Failure(500, <<"oops">>),
   Failure(503, <<"Service Unavailable">>)}

Outcomes ==
  SuccessOutcomes \cup UnparsedOutcomes \cup FailureOutcomes
    \cup {NetworkError, ResponseLost}

\* response.ok
Ok(r) == r.kind = "response" /\ r.status >= 200 /\ r.status <= 299

(***************************************************************************)
(* settlePayment: the retry loop                                           *)
(***************************************************************************)
maxRetriesPlusOne == 4 + 1

maxRetriesMinusOne == 4 - 1

maxRetries == 4

baseRetryDelay == 1000

RECURSIVE Pow2(_)
Pow2(n) == IF n <= 0 THEN 1 ELSE 2 * Pow2(n - 1)

retryDelayLinear(n) == baseRetryDelay * n

retryDelay(n) == baseRetryDelay * Pow2(n - 1)

isRetryable(statusCode, errorText) ==
  LET isNonceError ==
        Includes(errorText, "nonce uniqueness") \/ Includes(errorText, "checking nonce")
      isDatabaseError ==
        Includes(errorText, "database") \/ Includes(errorText, "Internal error")
      isServerError == statusCode >= 500
  IN  isServerError \/ isNonceError \/ isDatabaseError

\* data.txHash || data.transactionHash || data.meta?.incomingTxHash || 'unknown'
txHashOf(data) ==
  OrElse(OrElse(OrElse(data.txHash, data.transactionHash),
                IF data.meta.present THEN data.meta.incomingTxHash ELSE Undefined),
         "unknown")

Returned(txHash, facilitatorResponse) ==
  [outcome |-> "returned", success |-> TRUE, txHash |-> txHash,
   facilitatorResponse |-> facilitatorResponse, message |-> <<>>]

Threw(message) ==
  [outcome |-> "threw", success |-> FALSE, txHash |-> Undefined,
   facilitatorResponse |-> NoData, message |-> message]

NoSettlement ==
  [outcome |-> "none", success |-> FALSE, txHash |-> Undefined,
   facilitatorResponse |-> NoData, message |-> <<>>]

\* What the try block of one attempt throws, if it throws: the rejection of
\* fetch, the rejection of response.json(), the TypeError of reading a field of
\* null, or the Error of line 204.
Thrown(r) ==
  IF r.kind = "exception" THEN r.message
  ELSE IF Ok(r) /\ r.json = "invalid" THEN <<"Unexpected token in JSON">>
  ELSE IF Ok(r) /\ r.json = "null" THEN <<"Cannot read properties of null">>
  ELSE <<"Payment settlement failed: ">> \o r.text

\* Whether the try block of attempt n throws on answer r (else it returns, on
\* an ok answer, or falls through to its own delay).
Throws(r, n) ==
  \/ r.kind = "exception"
  \/ Ok(r) /\ r.json /= "object"
  \/ ~ Ok(r) /\ (~ isRetryable(r.status, r.text) \/ n = maxRetries)

\* catch (error): which error the final throw reports
CaughtFirst(error) == IF lastError = <<>> THEN error ELSE lastError

Caught(error) == error

\* One attempt: the POST, and everything up to the return, the throw or the
\* setTimeout that follows it.
SettleFetch(Outs) ==
  /\ pc = "fetch"
  /\ \E r \in Outs :
       /\ responses' = Append(responses, r)
       /\ IF Ok(r) /\ r.json = "object"
          THEN /\ settlement' = Returned(txHashOf(r.data), r.data)
               /\ pc' = "settled"
               /\ UNCHANGED <<lastError, delays>>
          ELSE IF Throws(r, attempt)
          THEN /\ lastError' = Caught(Thrown(r))
               /\ IF attempt = maxRetries
                  THEN /\ settlement' =
                            Threw(<<"Payment settlement failed after ${maxRetries} attempts: ">>
                                  \o lastError')
                       /\ pc' = "threw"
                       /\ UNCHANGED delays
                  ELSE /\ delays' = Append(delays, retryDelay(attempt))
                       /\ pc' = "sleep"
                       /\ UNCHANGED settlement
          ELSE /\ delays' = Append(delays, retryDelay(attempt))
               /\ pc' = "sleep"
               /\ UNCHANGED <<lastError, settlement>>
  /\ UNCHANGED <<env, req, attempt, path, storeVars, sharedDataset, reply, nreq, rowsBefore,
                 published, log, statuses>>

\* The timer fires: attempt++ and the loop test.
SettleWake ==
  /\ pc = "sleep"
  /\ attempt' = attempt + 1
  /\ IF attempt' <= maxRetries
     THEN pc' = "fetch" /\ UNCHANGED settlement
     ELSE /\ pc' = "threw"
          /\ settlement' = Threw(IF lastError /= <<>> THEN lastError
                                 ELSE <<"Payment settlement failed">>)
  /\ UNCHANGED <<env, req, lastError, responses, delays, path, storeVars,
                 sharedDataset, reply, nreq, rowsBefore, published, log, statuses>>

(***************************************************************************)
(* Strings that the validators test against a pattern are kept by shape:   *)
(* whether the value is there, whether it starts with 0x, whether what     *)
(* follows is all hexadecimal, and how many characters follow.             *)
(***************************************************************************)
Shape(defined, prefix, hex, digits) ==
  [defined |-> defined, prefix |-> prefix, hex |-> hex, digits |-> digits]

Hex(n) == Shape(TRUE, TRUE, TRUE, n)

NotHex(n) == Shape(TRUE, TRUE, FALSE, n)

EmptyString == Shape(TRUE, FALSE, TRUE, 0)

Missing == Shape(FALSE, FALSE, TRUE, 0)

\* !s is false
Present(s) == s.defined /\ (s.prefix \/ s.digits > 0)

\* /^0x[a-fA-F0-9]{n}$/.test(s)
MatchesHex(s, n) == s.defined /\ s.prefix /\ s.hex /\ s.digits = n

(***************************************************************************)
(* utils/validation.ts                                                     *)
(***************************************************************************)
ZeroAddress == "0x0000000000000000000000000000000000000000"

WellFormedAddresses ==
  {"0xA11ce", "0xB0b", "0xMerchant", "0xSpender", USDC_ADDRESS, ZeroAddress}

\* viem's isAddress: an address is one of the well-formed 40-digit strings
isAddress(address) == address \in WellFormedAddresses

validateWalletAddress(address) == isAddress(address)

validateRequirements(requirements) ==
  /\ requirements.object
  /\ Truthy(requirements.network)
  /\ Truthy(requirements.token)
  /\ Truthy(requirements.recipient)
  /\ Truthy(requirements.amount)
  /\ Present(requirements.nonce)
  /\ requirements.deadline /= 0
  /\ requirements.network = "arbitrum"
  /\ validateWalletAddress(requirements.recipient)
  /\ validateWalletAddress(requirements.token)

sigDigits == 130

nonceDigits == 64

validatePermitUntilDeadline(permit) ==
  /\ permit.object
  /\ Truthy(permit.owner)
  /\ Truthy(permit.spender)
  /\ Truthy(permit.value)
  /\ permit.deadline /= 0
  /\ Present(permit.nonce)
  /\ Present(permit.sig)
  /\ validateWalletAddress(permit.owner)
  /\ validateWalletAddress(permit.spender)
  /\ MatchesHex(permit.sig, sigDigits)
  /\ MatchesHex(permit.nonce, nonceDigits)
  /\ ~ (permit.deadline < now)

validatePermit(permit) ==
  /\ permit.object
  /\ Truthy(permit.owner)
  /\ Truthy(permit.spender)
  /\ Truthy(permit.value)
  /\ permit.deadline /= 0
  /\ Present(permit.nonce)
  /\ Present(permit.sig)
  /\ validateWalletAddress(permit.owner)
  /\ validateWalletAddress(permit.spender)
  /\ MatchesHex(permit.sig, sigDigits)
  /\ MatchesHex(permit.nonce, nonceDigits)
  /\ ~ (permit.deadline <= now)

(***************************************************************************)
(* Bounds of the model, and the requests it sends.                         *)
(***************************************************************************)
MaxTime == 2

MaxRequests == 2

MaxDatasets == 2

\* how long after its creation a dataset of the pipeline expires
DatasetLife == 1

Wallets == {"0xA11ce", "0xB0b"}

BypassTokens == {Undefined, "", "s3cret", "wrong"}

GoodRequirements ==
  [object |-> TRUE, network |-> "arbitrum", token |-> USDC_ADDRESS,
   recipient |-> "0xMerchant", amount |-> "1004500", nonce |-> Hex(nonceDigits),
   deadline |-> MaxTime + 1]

GoodPermit(owner, deadline) ==
  [object |-> TRUE, owner |-> owner, spender |-> "0xSpender", value |-> "1004500",
   deadline |-> deadline, nonce |-> Hex(nonceDigits), sig |-> Hex(sigDigits)]

Payer == "0xA11ce"

SettleBody(walletAddress, requirements, permit, dev_bypass) ==
  [op |-> "settle", walletAddress |-> walletAddress, requirements |-> requirements,
   permit |-> permit, dev_bypass |-> dev_bypass]

StartBody(walletAddress, dev_bypass) ==
  [op |-> "start", walletAddress |-> walletAddress, requirements |-> GoodRequirements,
   permit |-> GoodPermit(Undefined, 0), dev_bypass |-> dev_bypass]

NoRequest == SettleBody(Undefined, GoodRequirements, GoodPermit(Undefined, 0), Undefined)

\* Bodies with one defect each: the wallet, the requirements, the permit.
\* Each carries the bypass token.
DefectiveBodies ==
  {SettleBody("0x123", GoodRequirements, GoodPermit(Payer, MaxTime + 1), "s3cret"),
   SettleBody(Payer, [GoodRequirements EXCEPT !.network = "base"],
              GoodPermit(Payer, MaxTime + 1), "s3cret"),
   SettleBody(Payer, GoodRequirements,
              [GoodPermit(Payer, MaxTime + 1) EXCEPT !.sig = Hex(sigDigits + 1)], "s3cret")}

\* The request flow: well-formed bodies of the payer, without and with the
\* bypass token, one naming another wallet than the permit's owner, one whose
\* permit runs out at time 1, and the defective ones.
FlowBodies ==
  {SettleBody(Payer, GoodRequirements, GoodPermit(Payer, MaxTime + 1), Undefined),
   SettleBody(Payer, GoodRequirements, GoodPermit(Payer, MaxTime + 1), "s3cret"),
   SettleBody("0xB0b", GoodRequirements, GoodPermit(Payer, MaxTime + 1), Undefined),
   SettleBody(Payer, GoodRequirements, GoodPermit(Payer, 1), Undefined)}
  \cup DefectiveBodies

\* The bypass: a well-formed body with every token.
BypassBodies ==
  {SettleBody(Payer, GoodRequirements, GoodPermit(Payer, MaxTime + 1), t) :
     t \in BypassTokens}

StartBodies == {StartBody(w, t) : w \in {Payer, "0x123"}, t \in BypassTokens}

\* What the facilitator answers in the request flow.
FlowOutcomes ==
  {Success([NoData EXCEPT !.txHash = "0xh1"]), Failure(503, <<"Service Unavailable">>)}

(***************************************************************************)
(* utils/response.ts                                                       *)
(***************************************************************************)
NoEntitlement ==
  [id |-> 0, wallet_address |-> Undefined, shared_dataset_id |-> 0,
   tx_hash |-> Undefined, facilitator_response |-> NoData, valid_until |-> 0,
   created_at |-> 0]

\* a row of shared_datasets; items stands for the content of the run that wrote it
NoDataset == [id |-> 0, items |-> 0, created_at |-> 0, expires_at |-> 0]

\* the parts of the dataset and of the entitlement the settle handler answers with
DatasetView(dataset) == [items |-> dataset.items, next_available_at |-> dataset.expires_at]

EntitlementView(entitlement) ==
  [id |-> entitlement.id, tx_hash |-> entitlement.tx_hash,
   valid_until |-> entitlement.valid_until, created_at |-> entitlement.created_at]

NoRequirements ==
  [object |-> FALSE, network |-> Undefined, token |-> Undefined, recipient |-> Undefined,
   amount |-> Undefined, nonce |-> Missing, deadline |-> 0]

NoReply ==
  [success |-> FALSE, code |-> "none", message |-> "none", details |-> <<>>,
   dataset |-> DatasetView(NoDataset), entitlement |-> EntitlementView(NoEntitlement),
   requirements |-> NoRequirements]

\* successResponse(reply, {dataset, entitlement}) of the settle handler
successResponse(dataset, entitlement) ==
  [success |-> TRUE, code |-> "OK", message |-> "OK", details |-> <<>>,
   dataset |-> DatasetView(dataset), entitlement |-> EntitlementView(entitlement),
   requirements |-> NoRequirements]

\* successResponse(reply, requirements) of the start handler
requirementsResponse(requirements) ==
  [success |-> TRUE, code |-> "OK", message |-> "OK", details |-> <<>>,
   dataset |-> DatasetView(NoDataset), entitlement |-> EntitlementView(NoEntitlement),
   requirements |-> requirements]

errorResponse(code, message, details) ==
  [success |-> FALSE, code |-> code, message |-> message, details |-> details,
   dataset |-> DatasetView(NoDataset), entitlement |-> EntitlementView(NoEntitlement),
   requirements |-> NoRequirements]

(***************************************************************************)
(* services/supabase.ts                                                    *)
(***************************************************************************)
\* .order('created_at', { ascending: false }).limit(1): the rows it may return
OldestOf(rows) == {d \in rows : \A e \in rows : d.created_at <= e.created_at}

LatestOf(rows) == {d \in rows : \A e \in rows : e.created_at <= d.created_at}

\* .gt('expires_at', new Date().toISOString())
Unexpired(rows) == {d \in rows : d.expires_at > now}

\* getLatestSharedDataset: the rows it may return (none: it throws)
LatestSharedDatasets ==
  IF Unexpired(datasets) /= {} THEN LatestOf(Unexpired(datasets)) ELSE LatestOf(datasets)

\* the row grantDatasetAccess inserts, with the id and created_at the store gives
GrantedRow(walletAddress, dataset, txHash, facilitatorResponse) ==
  [id |-> Len(entitlements) + 1, wallet_address |-> walletAddress,
   shared_dataset_id |-> dataset.id, tx_hash |-> txHash,
   facilitator_response |-> facilitatorResponse, valid_until |-> dataset.expires_at,
   created_at |-> now]

\* .from('entitlements').insert(row): the table after it
InsertedTwice(rows, row) == Append(Append(rows, row), row)

Inserted(rows, row) == Append(rows, row)

(***************************************************************************)
(* routes/payment.ts: POST /payment/settle                                 *)
(***************************************************************************)
\* The validation gate of the handler: the error code it answers with, or "none".
SettleGateSkipsPermit(body) ==
  IF ~ validateWalletAddress(body.walletAddress) THEN "INVALID_WALLET"
  ELSE IF ~ validateRequirements(body.requirements) THEN "INVALID_REQUEST"
  ELSE "none"

SettleGate(body) ==
  IF ~ validateWalletAddress(body.walletAddress) THEN "INVALID_WALLET"
  ELSE IF ~ validateRequirements(body.requirements) THEN "INVALID_REQUEST"
  ELSE IF ~ validatePermit(body.permit) THEN "INVALID_SIGNATURE"
  ELSE "none"

GateMessage(code) ==
  CASE code = "INVALID_WALLET" -> "Invalid wallet address format"
    [] code = "INVALID_REQUEST" -> "Invalid payment requirements"
    [] OTHER -> "Invalid permit signature"

\* settlePayment has no facilitator to call
FacilitatorMissing ==
  ~ Truthy(CONFIG.FACILITATOR_API_URL) \/ ~ Truthy(CONFIG.FACILITATOR_API_KEY)

\* The request arrives: the handler validates it and calls settlePayment, which
\* runs to its first await (or returns, or throws, before it).
SettleRequest(bodies) ==
  /\ pc = "idle"
  /\ nreq < MaxRequests
  /\ \E body \in bodies :
       /\ req' = body
       /\ IF SettleGate(body) /= "none"
          THEN /\ reply' = errorResponse(SettleGate(body), GateMessage(SettleGate(body)), <<>>)
               /\ pc' = "idle"
               /\ path' = "none"
               /\ settlement' = NoSettlement
               /\ attempt' = 0
          ELSE /\ reply' = NoReply
               /\ IF DevBypass(body.dev_bypass)
                  THEN /\ settlement' = Returned("dev-bypass", NoData)
                       /\ pc' = "settled"
                       /\ path' = "bypass"
                       /\ attempt' = 0
                  ELSE IF FacilitatorMissing
                  THEN /\ settlement' = Threw(<<"Facilitator configuration not available">>)
                       /\ pc' = "threw"
                       /\ path' = "live"
                       /\ attempt' = 0
                  ELSE /\ settlement' = NoSettlement
                       /\ pc' = "fetch"
                       /\ path' = "live"
                       /\ attempt' = 1
  /\ nreq' = nreq + 1
  /\ rowsBefore' = Len(entitlements)
  /\ lastError' = <<>>
  /\ responses' = <<>>
  /\ delays' = <<>>
  /\ sharedDataset' = NoDataset
  /\ log' = <<>>
  /\ statuses' = <<>>
  /\ UNCHANGED <<env, storeVars, published>>

\* settlePayment returned: the handler reads the dataset to grant.
HandlerLookup ==
  /\ pc = "settled"
  /\ \E fails \in BOOLEAN :
       IF ~ settlement.success
       THEN /\ reply' = errorResponse("PAYMENT_FAILED", "Payment settlement failed", <<>>)
            /\ pc' = "idle"
            /\ UNCHANGED sharedDataset
       ELSE IF fails
       THEN /\ reply' = errorResponse("PAYMENT_FAILED", "Failed to settle payment",
                                      <<"Failed to fetch shared dataset: ">>)
            /\ pc' = "idle"
            /\ UNCHANGED sharedDataset
       ELSE IF datasets = {}
       THEN /\ reply' = errorResponse("PAYMENT_FAILED", "Failed to settle payment",
                                      <<"No shared dataset available. Pipeline may not have run yet.">>)
            /\ pc' = "idle"
            /\ UNCHANGED sharedDataset
       ELSE /\ \E d \in LatestSharedDatasets : sharedDataset' = d
            /\ pc' = "grant"
            /\ UNCHANGED reply
  /\ attempt' = 0
  /\ lastError' = <<>>
  /\ responses' = <<>>
  /\ delays' = <<>>
  /\ log' = (IF reply'.details /= <<>> THEN <<reply'.details>> ELSE <<>>)
  /\ UNCHANGED <<env, req, settlement, path, storeVars, nreq, rowsBefore, published, statuses>>

\* grantDatasetAccess: reads the dataset's expiry, inserts the row; then the
\* handler answers.
HandlerGrant ==
  /\ pc = "grant"
  /\ \E readFails \in BOOLEAN, insertFails \in BOOLEAN :
       LET found == {d \in datasets : d.id = sharedDataset.id} IN
       IF readFails \/ found = {}
       THEN /\ reply' = errorResponse("PAYMENT_FAILED", "Failed to settle payment",
                                      <<"Failed to get shared dataset expiration">>)
            /\ UNCHANGED entitlements
       ELSE IF insertFails
       THEN /\ reply' = errorResponse("PAYMENT_FAILED", "Failed to settle payment",
                                      <<"Failed to create entitlement: ">>)
            /\ UNCHANGED entitlements
       ELSE \E d \in found :
              LET row == GrantedRow(req.walletAddress, d, settlement.txHash,
                                    settlement.facilitatorResponse)
              IN  /\ entitlements' = Inserted(entitlements, row)
                  /\ reply' = successResponse(sharedDataset, row)
  /\ pc' = "idle"
  /\ sharedDataset' = NoDataset
  /\ log' = (IF reply'.details /= <<>> THEN <<reply'.details>> ELSE <<>>)
  /\ UNCHANGED <<env, req, settleVars, path, now, datasets, nreq, rowsBefore, published,
                 statuses>>

\* settlePayment threw: the handler's catch answers.
HandlerCatch ==
  /\ pc = "threw"
  /\ reply' = errorResponse("PAYMENT_FAILED", "Failed to settle payment", settlement.message)
  /\ pc' = "idle"
  /\ attempt' = 0
  /\ lastError' = <<>>
  /\ responses' = <<>>
  /\ delays' = <<>>
  /\ log' = <<settlement.message>>
  /\ UNCHANGED <<env, req, settlement, path, storeVars, sharedDataset, nreq, rowsBefore,
                 published, statuses>>

(***************************************************************************)
(* services/payment.ts: startPayment, and routes/payment.ts: POST          *)
(* /payment/start                                                          *)
(*                                                                         *)
(* The facilitator's answers to POST /requirements: fetch rejects, or a    *)
(* response with a status, a body that is JSON or not, and the body's      *)
(* accepts.  A number that is absent is 0, which is as falsy.              *)
(***************************************************************************)
QuoteItem(network, extra, nonce, deadline) ==
  [network |-> network, asset |-> USDC_ADDRESS, payTo |-> "0xMerchant",
   maxAmountRequired |-> "1004500",
   extra |-> [present |-> extra, nonce |-> nonce, deadline |-> deadline]]

Quote(kind, status, json, accepts) ==
  [kind |-> kind, status |-> status, json |-> json, accepts |-> accepts,
   text |-> <<"quote refused">>, message |-> <<"fetch failed">>]

Quotes ==
  {Quote("exception", 0, "invalid", <<>>),
   Quote("response", 500, "invalid", <<>>),
   Quote("response", 200, "invalid", <<>>),
   Quote("response", 200, "object", <<>>),
   Quote("response", 402, "object", <<QuoteItem("base", FALSE, Missing, 0)>>),
   Quote("response", 402, "object", <<QuoteItem("arbitrum", FALSE, Missing, 0)>>),
   Quote("response", 402, "object", <<QuoteItem("arbitrum", TRUE, Missing, 0)>>),
   Quote("response", 200, "object",
         <<QuoteItem("arbitrum", TRUE, Hex(nonceDigits), MaxTime + 1)>>)}

bypassDeadlineSeconds == 3600

liveDeadlineMillis == 3600000

\* generateNonce: 32 random bytes, in hexadecimal
generateNonce == Hex(nonceDigits)

createDevBypassResponse ==
  [object |-> TRUE, network |-> "arbitrum", token |-> USDC_ADDRESS,
   recipient |-> ZeroAddress, amount |-> AMOUNT_USDC, nonce |-> generateNonce,
   deadline |-> now + bypassDeadlineSeconds]

\* startPayment has no facilitator to call
QuoteFacilitatorMissing ==
  ~ Truthy(CONFIG.FACILITATOR_API_URL) \/ ~ Truthy(CONFIG.MERCHANT_ADDRESS)

\* the Error startPayment throws on the facilitator's answer q, or <<>>
QuoteError(q) ==
  IF q.kind = "exception" THEN q.message
  ELSE IF ~ Ok(q) /\ q.status /= 402 THEN <<"Facilitator error: ">> \o q.text
  ELSE IF q.json /= "object" THEN <<"Unexpected token in JSON">>
  ELSE IF Len(q.accepts) = 0 THEN <<"Invalid response from payment facilitator">>
  ELSE IF q.accepts[1].network /= "arbitrum" THEN <<"Only Arbitrum network is supported">>
  ELSE <<>>

\* the requirements startPayment maps the first accepted offer to
QuotedRequirements(acceptsItem) ==
  [object |-> TRUE, network |-> acceptsItem.network, token |-> acceptsItem.asset,
   recipient |-> acceptsItem.payTo, amount |-> acceptsItem.maxAmountRequired,
   nonce |-> IF acceptsItem.extra.present /\ Present(acceptsItem.extra.nonce)
             THEN acceptsItem.extra.nonce ELSE EmptyString,
   deadline |-> IF acceptsItem.extra.present /\ acceptsItem.extra.deadline /= 0
                THEN acceptsItem.extra.deadline
                ELSE now * 1000 + liveDeadlineMillis]

\* The whole request: the handler validates the wallet and calls startPayment.
StartRequest(bodies, quotes) ==
  /\ pc = "idle"
  /\ nreq < MaxRequests
  /\ \E body \in bodies, q \in quotes :
       /\ req' = body
       /\ IF ~ validateWalletAddress(body.walletAddress)
          THEN /\ reply' = errorResponse("INVALID_WALLET", "Invalid wallet address format", <<>>)
               /\ path' = "none"
          ELSE IF DevBypass(body.dev_bypass)
          THEN /\ reply' = requirementsResponse(createDevBypassResponse)
               /\ path' = "bypass"
          ELSE IF QuoteFacilitatorMissing
          THEN /\ reply' = errorResponse("PAYMENT_FAILED", "Failed to start payment flow",
                                         <<"Facilitator configuration not available">>)
               /\ path' = "live"
          ELSE IF QuoteError(q) /= <<>>
          THEN /\ reply' = errorResponse("PAYMENT_FAILED", "Failed to start payment flow",
                                         QuoteError(q))
               /\ path' = "live"
          ELSE /\ reply' = requirementsResponse(QuotedRequirements(q.accepts[1]))
               /\ path' = "live"
  /\ pc' = "idle"
  /\ nreq' = nreq + 1
  /\ rowsBefore' = Len(entitlements)
  /\ attempt' = 0
  /\ lastError' = <<>>
  /\ settlement' = NoSettlement
  /\ responses' = <<>>
  /\ delays' = <<>>
  /\ sharedDataset' = NoDataset
  /\ log' = (IF reply'.details /= <<>> THEN <<reply'.details>> ELSE <<>>)
  /\ statuses' = <<>>
  /\ UNCHANGED <<env, storeVars, published>>

(***************************************************************************)
(* services/supabase.ts: getPaymentStatus, and routes/payment.ts: GET      *)
(* /payment/status                                                         *)
(*                                                                         *)
(* The requests are handled one after the other and the store stamps       *)
(* created_at with a finer clock than now: of two rows with the same       *)
(* created_at here, the one inserted later is the one created later.       *)
(***************************************************************************)
\* .eq('wallet_address', walletAddress): the rows of the wallet, by position
RowsOf(walletAddress) ==
  {i \in 1..Len(entitlements) : entitlements[i].wallet_address = walletAddress}

\* .order('created_at', { ascending: false }).limit(1).single()
OldestRow(walletAddress) ==
  CHOOSE i \in RowsOf(walletAddress) : \A j \in RowsOf(walletAddress) : i <= j

LatestRow(walletAddress) ==
  CHOOSE i \in RowsOf(walletAddress) :
    \A j \in RowsOf(walletAddress) :
      \/ entitlements[j].created_at < entitlements[i].created_at
      \/ entitlements[j].created_at = entitlements[i].created_at /\ j <= i

\* shared_dataset:shared_datasets(*): the rows the entitlement's key joins
LinkedDatasets(entitlement) == {d \in datasets : d.id = entitlement.shared_dataset_id}

\* entitlement.valid_until, as the status reads it
ValidUntilOfDataset(entitlement) ==
  IF LinkedDatasets(entitlement) = {} THEN 0
  ELSE (CHOOSE d \in LinkedDatasets(entitlement) : TRUE).expires_at

ValidUntilOf(entitlement) == entitlement.valid_until

\* now < validUntil
IsValidAtOrAfter(validUntil) == now >= validUntil

IsValidUntilAndAt(validUntil) == now <= validUntil

IsValid(validUntil) == now < validUntil

\* the entitlement section of the status; null is the section of no row
StatusEntitlement(entitlement, isValid) ==
  [id |-> entitlement.id, tx_hash |-> entitlement.tx_hash,
   valid_until |-> entitlement.valid_until, created_at |-> entitlement.created_at,
   is_valid |-> isValid]

NullEntitlement == StatusEntitlement(NoEntitlement, FALSE)

NullDataset == DatasetView(NoDataset)

\* getPaymentStatus, when the read of the store succeeds
getPaymentStatus(walletAddress) ==
  IF RowsOf(walletAddress) = {}
  THEN [dataset |-> NullDataset, entitlement |-> NullEntitlement, now |-> now,
        valid_until |-> 0]
  ELSE LET entitlement == entitlements[LatestRow(walletAddress)] IN
       [dataset |-> IF LinkedDatasets(entitlement) = {} THEN NullDataset
                    ELSE DatasetView(CHOOSE d \in LinkedDatasets(entitlement) : TRUE),
        entitlement |->
          StatusEntitlement([entitlement EXCEPT !.valid_until = ValidUntilOf(entitlement)],
                            IsValid(ValidUntilOf(entitlement))),
        now |-> now, valid_until |-> ValidUntilOf(entitlement)]

\* what the handler answers: the status, or an error; calls is 2 when the call
\* follows at once another call for the same wallet, else 1
StatusAnswer(walletAddress, success, code, data) ==
  [walletAddress |-> walletAddress, success |-> success, code |-> code, data |-> data,
   calls |-> IF statuses /= <<>> /\ statuses[1].walletAddress = walletAddress
             THEN 2 ELSE 1]

NoStatus ==
  [dataset |-> NullDataset, entitlement |-> NullEntitlement, now |-> 0, valid_until |-> 0]

StatusWallets == Wallets \cup {"0x123"}

\* The whole request: the handler validates the wallet and calls
\* getPaymentStatus.  It writes nothing; req and reply stay those of the last
\* payment request.
StatusRequest ==
  /\ pc = "idle"
  /\ \E walletAddress \in StatusWallets, fails \in BOOLEAN :
       LET answer ==
             IF ~ validateWalletAddress(walletAddress)
             THEN StatusAnswer(walletAddress, FALSE, "INVALID_WALLET", NoStatus)
             ELSE IF fails
             THEN StatusAnswer(walletAddress, FALSE, "INTERNAL_ERROR", NoStatus)
             ELSE StatusAnswer(walletAddress, TRUE, "OK", getPaymentStatus(walletAddress))
       IN  /\ statuses' = <<answer>>
           /\ log' = (IF answer.code = "INTERNAL_ERROR"
                      THEN <<<<"Failed to fetch entitlement status">>>> ELSE <<>>)
  /\ UNCHANGED <<env, pc, req, settleVars, path, storeVars, sharedDataset, reply, nreq,
                 rowsBefore, published>>

(***************************************************************************)
(* The world around the requests: the clock, and the pipeline that         *)
(* publishes datasets.  The retry loop reads neither, so a step of theirs  *)
(* during the loop is the same step taken right after it.                  *)
(***************************************************************************)
Quiet == pc \in {"idle", "settled", "grant"}

Tick ==
  /\ Quiet
  /\ now < MaxTime
  /\ now' = now + 1
  /\ UNCHANGED <<env, pc, req, settleVars, path, datasets, entitlements, sharedDataset,
                 reply, nreq, rowsBefore, published, log, statuses>>

PublishDataset ==
  /\ Quiet
  /\ published < MaxDatasets
  /\ published' = published + 1
  /\ datasets' = datasets \cup
       {[id |-> published + 1, items |-> published + 1,
         created_at |-> now, expires_at |-> now + DatasetLife]}
  /\ statuses' = <<>>
  /\ UNCHANGED <<env, pc, req, settleVars, path, now, entitlements, sharedDataset,
                 reply, nreq, rowsBefore, log>>

\* the pipeline, or an operator of the store, changes a dataset's expiry: it
\* cuts the dataset short
ExpireDataset ==
  /\ Quiet
  /\ \E d \in datasets :
       /\ d.expires_at /= now
       /\ datasets' = (datasets \ {d}) \cup {[d EXCEPT !.expires_at = now]}
  /\ statuses' = <<>>
  /\ UNCHANGED <<env, pc, req, settleVars, path, now, entitlements, sharedDataset,
                 reply, nreq, rowsBefore, published, log>>

\* ... or removes a dataset
RemoveDataset ==
  /\ Quiet
  /\ \E d \in datasets : datasets' = datasets \ {d}
  /\ statuses' = <<>>
  /\ UNCHANGED <<env, pc, req, settleVars, path, now, entitlements, sharedDataset,
                 reply, nreq, rowsBefore, published, log>>

(***************************************************************************)
(* Specifications                                                          *)
(***************************************************************************)
Idle(environments) ==
  /\ env \in environments
  /\ pc = "idle"
  /\ req = NoRequest
  /\ attempt = 0
  /\ lastError = <<>>
  /\ settlement = NoSettlement
  /\ responses = <<>>
  /\ delays = <<>>
  /\ path = "none"
  /\ now = 0
  /\ datasets = {}
  /\ entitlements = <<>>
  /\ sharedDataset = NoDataset
  /\ reply = NoReply
  /\ nreq = 0
  /\ rowsBefore = 0
  /\ published = 0
  /\ log = <<>>
  /\ statuses = <<>>

LiveEnvironment ==
  [NODE_ENV |-> "production", DEV_BYPASS_SECRET |-> "s3cret",
   FACILITATOR_API_URL |-> "https://facilitator", FACILITATOR_API_KEY |-> "key",
   MERCHANT_ADDRESS |-> "0xMerchant"]

\* The request flow runs in development, the facilitator and the bypass secret
\* configured: a request takes the bypass or the live path by its token.
FlowEnvironment == [LiveEnvironment EXCEPT !.NODE_ENV = "development"]

Init == Idle({FlowEnvironment})

Next ==
  \/ SettleRequest(FlowBodies)
  \/ SettleFetch(FlowOutcomes)
  \/ SettleWake
  \/ HandlerLookup
  \/ HandlerGrant
  \/ HandlerCatch
  \/ Tick
  \/ PublishDataset

Spec == Init /\ [][Next]_vars

\* One live call of settlePayment, against every answer of the facilitator.
InitSettle ==
  /\ env = LiveEnvironment
  /\ pc = "fetch"
  /\ req \in {SettleBody(Payer, GoodRequirements, GoodPermit(Payer, MaxTime + 1), t) :
                t \in {Undefined, "s3cret"}}
  /\ attempt = 1
  /\ lastError = <<>>
  /\ settlement = NoSettlement
  /\ responses = <<>>
  /\ delays = <<>>
  /\ path = "live"
  /\ now = 0
  /\ datasets = {}
  /\ entitlements = <<>>
  /\ sharedDataset = NoDataset
  /\ reply = NoReply
  /\ nreq = 1
  /\ rowsBefore = 0
  /\ published = 0
  /\ log = <<>>
  /\ statuses = <<>>

NextSettle ==
  \/ SettleFetch(Outcomes)
  \/ SettleWake

SettleSpec == InitSettle /\ [][NextSettle]_vars /\ WF_vars(NextSettle)

\* Settlements that succeed, the changes of the datasets, and status calls.
StoreBodies ==
  {SettleBody(Payer, GoodRequirements, GoodPermit(Payer, MaxTime + 1), Undefined),
   SettleBody("0xB0b", GoodRequirements, GoodPermit("0xB0b", MaxTime + 1), "s3cret")}

StoreOutcomes == {Success([NoData EXCEPT !.txHash = "0xh1"])}

InitStore == Idle({FlowEnvironment})

NextStore ==
  \/ SettleRequest(StoreBodies)
  \/ SettleFetch(StoreOutcomes)
  \/ HandlerLookup
  \/ HandlerGrant
  \/ StatusRequest
  \/ Tick
  \/ PublishDataset
  \/ ExpireDataset
  \/ RemoveDataset

StoreSpec == InitStore /\ [][NextStore]_vars

\* The permit validator in front of the settle handler: permits of every make,
\* at every time, sent to a service that has no facilitator to call.
Permits ==
  {[object |-> TRUE, owner |-> owner, spender |-> spender, value |-> value,
    deadline |-> deadline, nonce |-> nonce, sig |-> sig] :
     owner \in {Undefined, "0x123", Payer}, spender \in {"", "0xSpender"},
     value \in {Undefined, "1004500"}, deadline \in 0..(MaxTime + 1),
     nonce \in {Missing, Hex(nonceDigits), NotHex(nonceDigits), Hex(nonceDigits - 1)},
     sig \in {EmptyString, Hex(sigDigits), Hex(sigDigits - 1), Hex(sigDigits + 1),
              NotHex(sigDigits)}}
  \cup {[GoodPermit(Payer, MaxTime + 1) EXCEPT !.object = FALSE]}

PermitBodies == {SettleBody(Payer, GoodRequirements, permit, Undefined) : permit \in Permits}

PermitEnvironment ==
  [LiveEnvironment EXCEPT !.FACILITATOR_API_URL = Undefined,
                          !.FACILITATOR_API_KEY = Undefined,
                          !.MERCHANT_ADDRESS = Undefined]

InitPermit == Idle({PermitEnvironment})

NextPermit ==
  \/ SettleRequest(PermitBodies)
  \/ HandlerCatch
  \/ Tick

PermitSpec == InitPermit /\ [][NextPermit]_vars

\* Start and settle requests in every environment, with every bypass token.
InitBypass == Idle(Environments)

NextBypass ==
  \/ StartRequest(StartBodies, Quotes)
  \/ SettleRequest(BypassBodies)
  \/ SettleFetch(FlowOutcomes)
  \/ SettleWake
  \/ HandlerLookup
  \/ HandlerCatch

BypassSpec == InitBypass /\ [][NextBypass]_vars

(***************************************************************************)
(* The claims about the retry loop, checked under SettleSpec.              *)
(*                                                                         *)
(* The words of the claims, spelled independently of the code's tests:     *)
(* an answer is retryable when it is a non-success response with status    *)
(* >= 500 or a body holding a nonce-conflict or database/internal-error    *)
(* phrase, terminal when it is a non-success response that is not          *)
(* retryable.                                                              *)
(***************************************************************************)
RetryablePhrases == {"nonce uniqueness", "checking nonce", "database", "Internal error"}

RetryableAnswer(r) ==
  /\ r.kind = "response"
  /\ ~ (r.status \in 200..299)
  /\ (r.status >= 500 \/ \E i \in 1..Len(r.text) : r.text[i] \in RetryablePhrases)

TerminalAnswer(r) ==
  /\ r.kind = "response"
  /\ ~ (r.status \in 200..299)
  /\ r.status < 500
  /\ \A i \in 1..Len(r.text) : r.text[i] \notin RetryablePhrases

HttpSuccess(r) == r.kind = "response" /\ r.status \in 200..299

\* the first populated of txHash, transactionHash, meta.incomingTxHash, else "unknown"
ClaimedReference(data) ==
  IF data.txHash \notin {Undefined, ""} THEN data.txHash
  ELSE IF data.transactionHash \notin {Undefined, ""} THEN data.transactionHash
  ELSE IF data.meta.present /\ data.meta.incomingTxHash \notin {Undefined, ""}
       THEN data.meta.incomingTxHash
  ELSE "unknown"

SettleOver == pc \in {"settled", "threw"}

NonDecreasing(seq) == \A i \in 1..(Len(seq) - 1) : seq[i] <= seq[i + 1]

\* C1 (as claimed): a terminal answer to attempt i ends settlePayment at once:
\* it is the last call the facilitator receives, settlePayment has thrown, and
\* no delay follows the attempt.
C1_TerminalAnswerAbortsAtOnce ==
  \A i \in 1..Len(responses) :
    TerminalAnswer(responses[i]) =>
      /\ Len(responses) = i
      /\ pc = "threw"
      /\ Len(delays) < i

\* C2 (as claimed): an HTTP success answer to attempt i, whatever its body, ends
\* settlePayment at once with success and the first populated reference of the
\* body, "unknown" when it holds none.
C2_SuccessShortCircuits ==
  \A i \in 1..Len(responses) :
    HttpSuccess(responses[i]) =>
      /\ Len(responses) = i
      /\ pc = "settled"
      /\ settlement.success
      /\ settlement.txHash = ClaimedReference(responses[i].data)

\* C3: one live call of settlePayment never makes more than 4 POST /settle calls,
\* never starts a 5th attempt, and always ends, by returning or by throwing.
C3_AtMostFourCallsAndEnds ==
  /\ [](Len(responses) <= 4 /\ attempt <= 4)
  /\ <>SettleOver

C3_Witness == pc = "threw" /\ Len(responses) = 4 /\ attempt = 4

ErrorOfAnswer(r) == IF r.kind = "exception" THEN r.message ELSE r.text

EndsWith(seq, tail) ==
  /\ Len(tail) <= Len(seq)
  /\ SubSeq(seq, Len(seq) - Len(tail) + 1, Len(seq)) = tail

FailedAnswer(r) == r.kind = "exception" \/ RetryableAnswer(r)

\* C5: a network exception at attempt n < 4 never ends the call (attempt n + 1
\* follows it), and when all 4 attempts failed, by retryable answers or
\* exceptions, settlePayment throws an Error that ends with the error of the
\* 4th attempt.
C5_ExhaustionReportsLastError ==
  /\ \A n \in 1..Len(responses) :
       (n < 4 /\ responses[n].kind = "exception") =>
         /\ SettleOver => Len(responses) > n
         /\ Len(responses) = n => (pc \in {"sleep", "fetch"} /\ Len(delays) = n)
  /\ (Len(responses) = 4 /\ \A i \in 1..4 : FailedAnswer(responses[i])) =>
       /\ pc = "threw"
       /\ ~ settlement.success
       /\ EndsWith(settlement.message, ErrorOfAnswer(responses[4]))

\* all four attempts failed, by exceptions and retryable answers, the first
\* error another one than the last
C5_Witness ==
  /\ pc = "threw"
  /\ Len(responses) = 4
  /\ responses[1].kind = "exception"
  /\ responses[2].kind = "exception"
  /\ RetryableAnswer(responses[3])
  /\ RetryableAnswer(responses[4])
  /\ ErrorOfAnswer(responses[1]) /= ErrorOfAnswer(responses[4])

(***************************************************************************)
(* The claims about the dev bypass, checked under BypassSpec.              *)
(***************************************************************************)
\* the requirements the bypass of start synthesizes carry the zero recipient
Synthesized(r) == r.success /\ r.requirements.recipient = ZeroAddress

\* C6: in production no request takes the bypass, whatever its token: start
\* answers no synthesized requirements and settle returns no synthetic reference.
C6_NoBypassInProduction ==
  env.NODE_ENV = "production" =>
    /\ path /= "bypass"
    /\ settlement.txHash /= "dev-bypass"
    /\ ~ Synthesized(reply)

\* production, the token equal to the configured secret: settle took the live
\* path and called the facilitator
C6_Witness ==
  /\ env.NODE_ENV = "production"
  /\ req.op = "settle"
  /\ req.dev_bypass = "s3cret"
  /\ env.DEV_BYPASS_SECRET = "s3cret"
  /\ path = "live"
  /\ Len(responses) >= 1

\* C7 (as claimed): the bypass is taken only when NODE_ENV is set, to another
\* value than production, and the token equals a configured, non-empty secret.
C7_BypassOnlyWhenExplicitlyNonProduction ==
  path = "bypass" =>
    /\ env.NODE_ENV \notin {Undefined, "", "production"}
    /\ env.DEV_BYPASS_SECRET \notin {Undefined, ""}
    /\ req.dev_bypass = env.DEV_BYPASS_SECRET

(***************************************************************************)
(* The claims about the settle flow, checked under Spec.                   *)
(***************************************************************************)
\* C8: a settle request whose wallet, requirements or permit fails its
\* validator (at the time the request arrives) is answered at once with an
\* error: no facilitator call, no dataset read, no entitlement insert.
C8_ValidationPrecedesAllWork ==
  [][(/\ nreq' = nreq + 1
      /\ req'.op = "settle"
      /\ \/ ~ validateWalletAddress(req'.walletAddress)
         \/ ~ validateRequirements(req'.requirements)
         \/ ~ validatePermit(req'.permit))
     => (/\ pc' = "idle"
         /\ ~ reply'.success
         /\ reply'.code \in {"INVALID_WALLET", "INVALID_REQUEST", "INVALID_SIGNATURE"}
         /\ responses' = <<>>
         /\ settlement' = NoSettlement
         /\ sharedDataset' = NoDataset
         /\ entitlements' = entitlements)]_vars

\* a request with the bypass token and a signature one digit too long, rejected
\* while a dataset was there to grant
C8_Witness ==
  /\ req.op = "settle"
  /\ nreq > 0
  /\ req.dev_bypass = "s3cret"
  /\ req.permit.sig = Hex(131)
  /\ pc = "idle"
  /\ reply.code = "INVALID_SIGNATURE"
  /\ datasets /= {}
  /\ Len(entitlements) = rowsBefore

\* the rows the request in flight, or the last one finished, has inserted
RowsOfRequest == Len(entitlements) - rowsBefore

RequestOver == pc = "idle" /\ nreq > 0 /\ req.op = "settle"

\* C9 (as claimed): a finished settle request has inserted exactly one row when
\* its settlement succeeded, and none when it did not.
C9_ExactlyOneRowPerSuccessfulSettlement ==
  RequestOver => RowsOfRequest = (IF settlement.success THEN 1 ELSE 0)

\* C9 (amended): a settle request inserts at most one row, and only after its
\* settlement succeeded; a request answered with success has inserted exactly
\* one, the row it answers with; a request answered with an error, none.
C9_AtMostOneRowOnlyAfterSuccess ==
  /\ RowsOfRequest \in {0, 1}
  /\ RowsOfRequest = 1 =>
       /\ settlement.success
       /\ entitlements[Len(entitlements)].tx_hash = settlement.txHash
       /\ RequestOver
       /\ reply.success
       /\ reply.entitlement.id = entitlements[Len(entitlements)].id
       /\ reply.entitlement.tx_hash = settlement.txHash
  /\ (RequestOver /\ reply.success) => RowsOfRequest = 1
  /\ ~ settlement.success => RowsOfRequest = 0

\* the second request's settlement succeeded at the facilitator and its row is in
\* the store, next to the first request's
C9_Witness ==
  /\ RequestOver
  /\ reply.success
  /\ settlement.txHash = "0xh1"
  /\ Len(entitlements) = 2
  /\ rowsBefore = 1

\* C10 (as claimed): the rows a settle request inserts name the owner of the
\* permit it settled.
C10_EntitlementNamesPermitOwner ==
  \A i \in (rowsBefore + 1)..Len(entitlements) :
    entitlements[i].wallet_address = req.permit.owner

(***************************************************************************)
(* The claims about entitlements and their status, checked under StoreSpec.*)
(***************************************************************************)
\* the last status call was answered with a status, and nothing but the clock
\* has moved since
Answered == statuses /= <<>> /\ statuses[1].success

\* ... and the status reports an entitlement
Reported == Answered /\ statuses[1].data.entitlement.id /= 0

\* the row of the store the status reports
ReportedRow == entitlements[statuses[1].data.entitlement.id]

\* a step inserts a row
RowInserted == Len(entitlements') = Len(entitlements) + 1

\* C11: a row inserted carries as valid_until the expiry its dataset has in the
\* store at that time; no step changes or removes a row there is; and a status
\* reports the row's stored valid_until and computes is_valid from it, whatever
\* has become of the dataset since.
C11_ValidUntilCopiedOnceAndKept ==
  /\ [][/\ RowInserted =>
             \E d \in datasets :
               /\ d.id = entitlements'[Len(entitlements')].shared_dataset_id
               /\ entitlements'[Len(entitlements')].valid_until = d.expires_at
        /\ Len(entitlements') >= Len(entitlements)
        /\ \A i \in 1..Len(entitlements) : entitlements'[i] = entitlements[i]]_vars
  /\ [](Reported =>
          /\ statuses[1].data.valid_until = ReportedRow.valid_until
          /\ statuses[1].data.entitlement.valid_until = ReportedRow.valid_until
          /\ statuses[1].data.entitlement.is_valid
               = (statuses[1].data.now < ReportedRow.valid_until))

\* the status of an entitlement whose dataset has been cut short since the
\* grant: the dataset has expired, the entitlement is reported valid
C11_Witness ==
  /\ Reported
  /\ \E d \in datasets :
       /\ d.id = ReportedRow.shared_dataset_id
       /\ d.expires_at < ReportedRow.valid_until
       /\ d.expires_at <= statuses[1].data.now
  /\ statuses[1].data.entitlement.is_valid
  /\ statuses[1].data.valid_until = ReportedRow.valid_until

\* the status of an entitlement whose dataset has been removed since the grant
C11_WitnessRemoved ==
  /\ Reported
  /\ LinkedDatasets(ReportedRow) = {}
  /\ statuses[1].data.valid_until = ReportedRow.valid_until

\* a step answers a status call with a status
StatusAnswered == statuses' /= statuses /\ statuses' /= <<>> /\ statuses'[1].success

\* C12: a status call for a wallet with no row answers a null dataset, a null
\* entitlement and the time of the call; otherwise it reports a row of the
\* wallet that none of the wallet's rows is created after, with is_valid
\* exactly (now < valid_until) at the time of the call, and with the dataset the
\* row names, or a null dataset when the store has it no more.
C12_StatusReadsLatestRow ==
  [][StatusAnswered =>
       LET data == statuses'[1].data
           rows == RowsOf(statuses'[1].walletAddress)
       IN  /\ data.now = now
           /\ rows = {} =>
                /\ data.entitlement = NullEntitlement
                /\ data.dataset = NullDataset
           /\ rows /= {} =>
                \E i \in rows :
                  /\ \A j \in rows : entitlements[j].created_at <= entitlements[i].created_at
                  /\ data.entitlement.id = entitlements[i].id
                  /\ data.entitlement.tx_hash = entitlements[i].tx_hash
                  /\ data.entitlement.created_at = entitlements[i].created_at
                  /\ data.entitlement.valid_until = entitlements[i].valid_until
                  /\ data.entitlement.is_valid = (now < entitlements[i].valid_until)
                  /\ LinkedDatasets(entitlements[i]) = {} => data.dataset = NullDataset
                  /\ \A d \in LinkedDatasets(entitlements[i]) :
                       data.dataset = [items |-> d.items, next_available_at |-> d.expires_at]]_vars

\* the wallet has two rows, created at different times, the later one reported
\* as no longer valid; its dataset is gone
C12_Witness ==
  /\ Reported
  /\ statuses[1].data.now = now
  /\ Cardinality(RowsOf(statuses[1].walletAddress)) = 2
  /\ \E i \in RowsOf(statuses[1].walletAddress) :
       entitlements[i].created_at < ReportedRow.created_at
  /\ ~ statuses[1].data.entitlement.is_valid
  /\ statuses[1].data.dataset = NullDataset

\* the handler's call of getLatestSharedDataset ends
LookupOver == pc = "settled" /\ settlement.success /\ pc' /= "settled"

NoDataAvailable == <<"No shared dataset available. Pipeline may not have run yet.">>

\* C13: the lookup returns a dataset that expires after now and that no such
\* dataset is created after; when none expires after now, a dataset of the store
\* that none is created after; it fails with NoDataAvailable only when the store
\* is empty, and then it does fail.
C13_LatestActiveElseLatest ==
  [][LookupOver =>
       /\ pc' = "grant" =>
            /\ sharedDataset' \in datasets
            /\ IF \E d \in datasets : d.expires_at > now
               THEN /\ sharedDataset'.expires_at > now
                    /\ \A d \in datasets :
                         d.expires_at > now => d.created_at <= sharedDataset'.created_at
               ELSE \A d \in datasets : d.created_at <= sharedDataset'.created_at
       /\ reply'.details = NoDataAvailable => datasets = {}
       /\ datasets = {} => pc' = "idle" /\ ~ reply'.success]_vars

\* every dataset has expired; the lookup has returned the later created of two
C13_Witness ==
  /\ pc = "grant"
  /\ Cardinality(datasets) = 2
  /\ \A d \in datasets : d.expires_at <= now
  /\ \E d \in datasets : d.created_at < sharedDataset.created_at
  /\ sharedDataset \in datasets

\* the row the last settle request inserted
GrantedByRequest == entitlements[Len(entitlements)]

\* the last settle request was answered with success and a status call for its
\* wallet has followed at once, the clock still at the row's creation time
StatusRightAfterGrant ==
  /\ RequestOver
  /\ reply.success
  /\ RowsOfRequest = 1
  /\ Answered
  /\ statuses[1].walletAddress = req.walletAddress
  /\ statuses[1].data.now = GrantedByRequest.created_at

\* C14: when the dataset the lookup resolved is unexpired at the grant, the
\* request is answered with the settlement's transaction reference and the row
\* inserted for its wallet has the dataset's expiry as valid_until; a status call
\* for the wallet right afterwards reports that row, with is_valid true.
C14_SettleGrantStatus ==
  /\ [][(RowInserted /\ \E d \in datasets : d.id = sharedDataset.id /\ d.expires_at > now) =>
          /\ \E d \in datasets :
               /\ d.id = sharedDataset.id
               /\ entitlements'[Len(entitlements')].valid_until = d.expires_at
          /\ entitlements'[Len(entitlements')].valid_until > now
          /\ entitlements'[Len(entitlements')].wallet_address = req.walletAddress
          /\ entitlements'[Len(entitlements')].tx_hash = settlement.txHash
          /\ Truthy(settlement.txHash)
          /\ reply'.success
          /\ reply'.entitlement.tx_hash = settlement.txHash]_vars
  /\ []((StatusRightAfterGrant /\ GrantedByRequest.valid_until > GrantedByRequest.created_at) =>
          /\ statuses[1].data.entitlement.id = GrantedByRequest.id
          /\ statuses[1].data.entitlement.is_valid
          /\ statuses[1].data.valid_until = GrantedByRequest.valid_until)

\* the facilitator accepted the payer's settlement, the dataset is still in the
\* store, unexpired, and the status reports the entitlement valid
C14_Witness ==
  /\ StatusRightAfterGrant
  /\ path = "live"
  /\ settlement.txHash = "0xh1"
  /\ statuses[1].data.entitlement.id = GrantedByRequest.id
  /\ statuses[1].data.entitlement.is_valid
  /\ \E d \in datasets :
       /\ d.id = GrantedByRequest.shared_dataset_id
       /\ d.expires_at = GrantedByRequest.valid_until
       /\ d.expires_at > now
       /\ statuses[1].data.dataset.next_available_at = d.expires_at

(***************************************************************************)
(* The claim about the permit validator, checked under PermitSpec: the     *)
(* wallet and the requirements of every request are valid, so the handler  *)
(* answers INVALID_SIGNATURE exactly when validatePermit returns false.    *)
(***************************************************************************)
\* a field is present when it is set and not empty
FieldsPresent(permit) ==
  /\ permit.owner \notin {Undefined, ""}
  /\ permit.spender \notin {Undefined, ""}
  /\ permit.value \notin {Undefined, ""}
  /\ permit.deadline /= 0
  /\ permit.nonce /= Missing /\ permit.nonce /= EmptyString
  /\ permit.sig /= Missing /\ permit.sig /= EmptyString

\* the permit the claim calls valid at the time t, in seconds
ClaimedValidPermit(permit, t) ==
  /\ permit.object
  /\ FieldsPresent(permit)
  /\ permit.owner \in WellFormedAddresses
  /\ permit.spender \in WellFormedAddresses
  /\ permit.sig = [defined |-> TRUE, prefix |-> TRUE, hex |-> TRUE, digits |-> 130]
  /\ permit.nonce = [defined |-> TRUE, prefix |-> TRUE, hex |-> TRUE, digits |-> 64]
  /\ permit.deadline > t

\* a settle request arrives
SettleArrives == nreq' = nreq + 1 /\ req'.op = "settle"

\* C15: the validator accepts a permit exactly when every field is present,
\* owner and spender are addresses, sig is 0x and 130 hex digits, nonce is 0x and
\* 64 hex digits and the deadline is after now; validating changes nothing of
\* the store.
C15_PermitValidExactlyWhen ==
  [][SettleArrives =>
       /\ (reply'.code /= "INVALID_SIGNATURE") = ClaimedValidPermit(req'.permit, now)
       /\ reply'.code = "INVALID_SIGNATURE" => ~ reply'.success /\ pc' = "idle"
       /\ UNCHANGED <<now, datasets, entitlements, published>>]_vars

\* a permit whose deadline is now, every other field well-formed, is rejected
C15_Witness ==
  /\ req.op = "settle"
  /\ nreq > 0
  /\ now > 0
  /\ req.permit = GoodPermit(Payer, now)
  /\ reply.code = "INVALID_SIGNATURE"
  /\ pc = "idle"

(***************************************************************************)
(* The claims about the requirements start returns, checked under          *)
(* BypassSpec.  The clock stands at the time of issuance; an offer of the  *)
(* facilitator that names a deadline names MaxTime + 1.                    *)
(***************************************************************************)
\* the last request was a start, answered with requirements
Quoted == req.op = "start" /\ nreq > 0 /\ reply.success

\* C16 (as claimed): on the live path the deadline returned is the offer's, or,
\* when the offer names none, one hour after now in seconds, as the bypass
\* path's deadline is.
C16_DefaultDeadlineInSeconds ==
  (Quoted /\ path = "live") =>
    reply.requirements.deadline \in {MaxTime + 1, now + 3600}

\* C18 (as claimed): requirements returned by start, on either path, carry the
\* supported network, a nonce of 0x and 64 hex digits and a deadline after now,
\* and pass the requirements validator.
C18_QuotedRequirementsValidate ==
  Quoted =>
    /\ reply.requirements.network = "arbitrum"
    /\ reply.requirements.nonce = [defined |-> TRUE, prefix |-> TRUE, hex |-> TRUE, digits |-> 64]
    /\ reply.requirements.deadline > now
    /\ validateRequirements(reply.requirements)

(***************************************************************************)
(* The claim about the backoff, checked under SettleSpec.                  *)
(***************************************************************************)
RECURSIVE TotalOf(_)
TotalOf(seq) == IF seq = <<>> THEN 0 ELSE seq[1] + TotalOf(Tail(seq))

\* 2^(n-1) for the attempts 1, 2, 3
Doubling(n) == IF n = 1 THEN 1 ELSE IF n = 2 THEN 2 ELSE 4

\* C17: the delay after attempt n is 1000 * 2^(n-1) milliseconds, whatever made
\* attempt n fail; one delay follows every attempt but the final one, none
\* follows the final one, and the delays of a call add up to no more than 15000.
C17_BackoffDoublesFromBase ==
  /\ \A n \in 1..Len(delays) : delays[n] = 1000 * Doubling(n)
  /\ Len(delays) <= 3
  /\ pc = "sleep" => Len(delays) = Len(responses) /\ Len(delays) = attempt
  /\ pc = "fetch" => Len(delays) = Len(responses) /\ Len(delays) = attempt - 1
  /\ pc \in {"settled", "threw"} => Len(delays) = Len(responses) - 1
  /\ TotalOf(delays) <= 15 * 1000

\* four failed attempts, the first answered 503, the second a network error:
\* three delays, none after the fourth attempt
C17_Witness ==
  /\ pc = "threw"
  /\ Len(responses) = 4
  /\ responses[1].status = 503
  /\ responses[2].kind = "exception"
  /\ delays = <<1000, 2000, 4000>>

(***************************************************************************)
(* The claim about repeated status calls, checked under StoreSpec.         *)
(***************************************************************************)
\* a step answers a status call
StatusCalled == statuses' /= statuses /\ statuses' /= <<>>

\* ... with a status, right after a call for the same wallet answered with one
StatusRepeated ==
  /\ StatusCalled
  /\ statuses'[1].success
  /\ statuses /= <<>>
  /\ statuses[1].success
  /\ statuses[1].walletAddress = statuses'[1].walletAddress

\* valid_until lies after the time of the first answer, not after the second's
Lapsed(first, second) ==
  first.data.now < first.data.valid_until /\ first.data.valid_until <= second.data.now

\* C19 (as claimed): a status call writes nothing, and the second of two calls
\* in immediate succession answers the dataset and entitlement sections of the
\* first, is_valid included.
C19_StatusRepeatsItself ==
  [][/\ StatusCalled => UNCHANGED <<datasets, entitlements, published>>
     /\ StatusRepeated =>
          /\ statuses'[1].data.dataset = statuses[1].data.dataset
          /\ statuses'[1].data.entitlement = statuses[1].data.entitlement]_vars

\* C19 (amended): a status call writes nothing, and the second of two calls in
\* immediate succession answers the dataset section of the first and the same
\* entitlement (id, tx_hash, valid_until, created_at); its is_valid is that of
\* the first, unless valid_until lies after the time of the first call and not
\* after the time of the second: then it is true in the first, false in the second.
C19_StatusRepeatsItselfUntilLapse ==
  [][/\ StatusCalled => UNCHANGED <<datasets, entitlements, published>>
     /\ StatusRepeated =>
          /\ statuses'[1].data.dataset = statuses[1].data.dataset
          /\ statuses'[1].data.valid_until = statuses[1].data.valid_until
          /\ [statuses'[1].data.entitlement EXCEPT !.is_valid = FALSE]
               = [statuses[1].data.entitlement EXCEPT !.is_valid = FALSE]
          /\ statuses'[1].data.entitlement.is_valid
               = (statuses[1].data.entitlement.is_valid
                    /\ ~ Lapsed(statuses[1], statuses'[1]))]_vars

\* the second of two calls, made when the entitlement has just lapsed
C19_Witness ==
  /\ Reported
  /\ statuses[1].calls = 2
  /\ statuses[1].data.now = now
  /\ ReportedRow.created_at < ReportedRow.valid_until
  /\ ReportedRow.valid_until = now
  /\ ~ statuses[1].data.entitlement.is_valid

(***************************************************************************)
(* The claim about the log, checked under Spec.                            *)
(***************************************************************************)
\* the settlement of the last request succeeded and the request was answered
\* with an error: the lookup of the dataset or the insert of the row failed
PaidNotEntitled == RequestOver /\ settlement.success /\ ~ reply.success

\* C20 (as claimed): a request whose settlement succeeded and whose grant failed
\* is answered with an error and leaves a log entry that holds both the wallet
\* address and the settlement's transaction reference.
C20_PaidNotEntitledIsLogged ==
  PaidNotEntitled =>
    /\ reply.code = "PAYMENT_FAILED"
    /\ \E n \in 1..Len(log) :
         /\ Includes(log[n], req.walletAddress)
         /\ Includes(log[n], settlement.txHash)

(***************************************************************************)
(* The claim about a payment the facilitator has executed, checked under   *)
(* SettleSpec.                                                             *)
(***************************************************************************)
\* the facilitator refuses a nonce it has already seen
NonceConflict(r) ==
  r.kind = "response" /\ ~ Ok(r) /\ Includes(r.text, "nonce uniqueness")

\* The facilitator executed the payment in attempt i; that attempt was answered
\* with a success the code can read, or its answer was lost to an exception of
\* fetch; every later attempt of the call was answered with a nonce conflict.
\* (A 2xx answer with a body that is no JSON object is the case of C2.)
ExecutedIn(i) ==
  /\ responses[i].executed
  /\ \/ responses[i].kind = "exception"
     \/ Ok(responses[i]) /\ responses[i].json = "object"
  /\ \A j \in (i + 1)..Len(responses) : NonceConflict(responses[j])

\* C21 (as claimed): when the facilitator has executed the payment in some
\* attempt of a live settle call, the call returns success, also when that
\* attempt's answer was lost and the attempts after it were answered with a
\* nonce-uniqueness conflict; the call never throws for an executed payment.
C21_ExecutedPaymentReturnsSuccess ==
  (SettleOver /\ \E i \in 1..Len(responses) : ExecutedIn(i)) =>
    settlement.outcome = "returned" /\ settlement.success

\* The case of the claim: the answer of the first attempt is lost after the
\* payment was executed, the three attempts that follow meet a nonce conflict.
C21_LostThenConflicts ==
  /\ SettleOver
  /\ Len(responses) = maxRetries
  /\ responses[1] = ResponseLost
  /\ \A j \in 2..maxRetries : NonceConflict(responses[j])

(***************************************************************************)
(* The claim about the validity of a new entitlement, checked under        *)
(* StoreSpec.                                                              *)
(***************************************************************************)
\* C22 (as claimed): every row the settle flow inserts has a valid_until later
\* than the time of the insert, whichever dataset getLatestSharedDataset
\* returned, the fallback to an expired dataset included; a status call right
\* after a successful settle request never reports its row with is_valid false.
C22_EntitlementValidWhenInserted ==
  /\ [][RowInserted => entitlements'[Len(entitlements')].valid_until > now]_vars
  /\ [](StatusRightAfterGrant =>
          /\ statuses[1].data.entitlement.id = GrantedByRequest.id
          /\ statuses[1].data.entitlement.is_valid)

\* The case of the claim: every dataset of the store had expired when the
\* request was granted, the request was answered with success, and the status
\* call right after it reports the new row.
C22_ExpiredFallbackGranted ==
  /\ StatusRightAfterGrant
  /\ path = "live"
  /\ statuses[1].data.entitlement.id = GrantedByRequest.id
  /\ datasets /= {}
  /\ \A d \in datasets : d.expires_at <= GrantedByRequest.created_at
  /\ \E d \in datasets :
       /\ d.id = GrantedByRequest.shared_dataset_id
       /\ d.expires_at = GrantedByRequest.valid_until

====
